---- MODULE Spec2Model ----
(***************************************************************************)
(* WalletTracker (src/services/walletTracker.ts): the subscription         *)
(* manager, the holdings cache and its diff, as a state machine.           *)
(*                                                                         *)
(* Every `await` of the source is a suspension point: an operation is one  *)
(* action for the code it runs up to its first await, and one action per   *)
(* continuation.  Operations suspended at an await are the records of      *)
(* `tasks`.  The ledger (the @solana/web3.js Connection) is the            *)
(* environment: it serves reads, may fail them, fires watches, and changes *)
(* balances.  An "error" listener is registered on the emitter (as         *)
(* src/index.ts does), so emit("error") does not throw.                    *)
(***************************************************************************)
EXTENDS Integers, Sequences, FiniteSets, TLC

VARIABLES
  holdingsCache,   \* Map<string, WalletHoldings>, in insertion order
  subscriptions,   \* Map<string, number>, in insertion order
  eventHandlers,   \* Map<string, Set<callback>>, sets in insertion order
  updateLatencies, \* number[]
  isPaused,
  updateCount,
  errorCount,
  ledger,          \* environment: the balances the ledger holds per address
  live,            \* environment: the watches opened and not cancelled, id -> address
  nextId,          \* environment: the next client subscription id
  now,             \* environment: Date.now(); the clock ticks when an operation starts
  tasks,           \* the operations suspended at an await
  calls,           \* number of operations started so far
  faults,          \* number of failures injected so far
  registered,      \* history: callbacks whose subscribe returned, per address
  roundTrip,       \* history of a pause/resume cycle: the registrations and snapshots
                   \* at its pause(), the addresses whose callbacks got a batch since
  lastRefresh,     \* history: per address, the last completed refresh
  last             \* what the last step of the tracker did (returned, emitted, delivered)

vars == <<holdingsCache, subscriptions, eventHandlers, updateLatencies, isPaused,
          updateCount, errorCount, ledger, live, nextId, now, tasks, calls,
          faults, registered, roundTrip, lastRefresh, last>>

(***************************************************************************)
(* Bounds of the model.                                                    *)
(***************************************************************************)
MaxCalls == 3      \* operations (API calls and watch notifications) started
MaxTasks == 2      \* operations suspended at the same time
MaxFaults == 1     \* failures the environment injects
MaxAmount == 2     \* largest token amount
MaxTokens == 2     \* longest token list of the diff inputs

Addresses == {"A", "B"}     \* well-formed addresses
Invalid == "bad"            \* a malformed address
Callbacks == {"cb1", "cb2"}
Mints == {"X", "Y"}

\* a mint's decimals are fixed by the mint account
DecimalsOf(mint) == IF mint = "X" THEN 6 ELSE 9

Token(mint, amount) == [mint |-> mint, amount |-> amount, decimals |-> DecimalsOf(mint)]

Tokens == {Token(m, n) : m \in Mints, n \in 0..MaxAmount}

\* every token list up to MaxTokens entries, repeated mints included
TokenLists == UNION {[1..n -> Tokens] : n \in 0..MaxTokens}

\* the balances the ledger takes for an address in the tracker's runs
LedgerValues(a) ==
  IF a = "A" THEN {<<Token("X", 1)>>, <<Token("X", 2)>>} ELSE {<<Token("Y", 1)>>}

\* the balances at the start; LedgerChange reaches every other before the first call
InitialLedger == [a \in Addresses |-> IF a = "A" THEN <<Token("X", 1)>> ELSE <<Token("Y", 1)>>]

\* the subscribe calls made: address, callback
SubscribeInputs ==
  {<<"A", "cb1">>, <<"A", "cb2">>, <<"B", "cb1">>, <<Invalid, "cb1">>}

(***************************************************************************)
(* JavaScript Map and Set, both insertion-ordered.                         *)
(***************************************************************************)
MapHas(m, k) == \E i \in 1..Len(m) : m[i].k = k

MapIndex(m, k) == CHOOSE i \in 1..Len(m) : m[i].k = k

MapGet(m, k) == m[MapIndex(m, k)].v

MapSet(m, k, v) ==
  IF MapHas(m, k)
  THEN [m EXCEPT ![MapIndex(m, k)] = [k |-> k, v |-> v]]
  ELSE Append(m, [k |-> k, v |-> v])

MapDelete(m, k) == SelectSeq(m, LAMBDA e : e.k # k)

MapKeys(m) == [i \in 1..Len(m) |-> m[i].k]

SeqHas(s, x) == \E i \in 1..Len(s) : s[i] = x

SetAdd(s, x) == IF SeqHas(s, x) THEN s ELSE Append(s, x)

Range(s) == {s[i] : i \in 1..Len(s)}

(***************************************************************************)
(* The diff.                                                               *)
(***************************************************************************)
Change(mint, old, new, decimals, timestamp) ==
  [mint |-> mint, oldBalance |-> old, newBalance |-> new,
   decimals |-> decimals, timestamp |-> timestamp]

\* Array.prototype.find on the mint: the first match
HasMint(tokens, mint) == \E i \in 1..Len(tokens) : tokens[i].mint = mint

FindMint(tokens, mint) ==
  tokens[CHOOSE i \in 1..Len(tokens) :
           /\ tokens[i].mint = mint
           /\ \A j \in 1..(i - 1) : tokens[j].mint # mint]

RECURSIVE NewOrUpdated(_, _, _, _)
NewOrUpdated(previousTokens, currentTokens, timestamp, i) ==
  IF i > Len(currentTokens) THEN <<>>
  ELSE LET cur == currentTokens[i]
           has == HasMint(previousTokens, cur.mint)
           rest == NewOrUpdated(previousTokens, currentTokens, timestamp, i + 1)
       IN IF ~has
          THEN <<Change(cur.mint, 0, cur.amount, cur.decimals, timestamp)>> \o rest
          ELSE IF FindMint(previousTokens, cur.mint).amount # cur.amount
               THEN <<Change(cur.mint, FindMint(previousTokens, cur.mint).amount,
                             cur.amount, cur.decimals, timestamp)>> \o rest
               ELSE rest

RECURSIVE Removed(_, _, _, _)
Removed(previousTokens, currentTokens, timestamp, i) ==
  IF i > Len(previousTokens) THEN <<>>
  ELSE LET prev == previousTokens[i]
           rest == Removed(previousTokens, currentTokens, timestamp, i + 1)
       IN IF ~HasMint(currentTokens, prev.mint)
          THEN <<Change(prev.mint, prev.amount, 0, prev.decimals, timestamp)>> \o rest
          ELSE rest

\* detectChanges whose first loop does not compare the amounts
detectChanges_NoCompare(previousTokens, currentTokens, timestamp) ==
  [i \in 1..Len(currentTokens) |->
     Change(currentTokens[i].mint,
            IF HasMint(previousTokens, currentTokens[i].mint)
            THEN FindMint(previousTokens, currentTokens[i].mint).amount ELSE 0,
            currentTokens[i].amount, currentTokens[i].decimals, timestamp)]
    \o Removed(previousTokens, currentTokens, timestamp, 1)

\* detectChanges without its second loop
detectChanges_NoRemoved(previousTokens, currentTokens, timestamp) ==
  NewOrUpdated(previousTokens, currentTokens, timestamp, 1)

detectChanges(previousTokens, currentTokens, timestamp) ==
  NewOrUpdated(previousTokens, currentTokens, timestamp, 1)
    \o Removed(previousTokens, currentTokens, timestamp, 1)

\* the branch of updateWalletHoldings without previous holdings
AllNew(tokens, timestamp) ==
  [i \in 1..Len(tokens) |->
     Change(tokens[i].mint, 0, tokens[i].amount, tokens[i].decimals, timestamp)]

\* what getTokenAccounts returns: the balances read, [] when the read failed
\* getTokenAccounts that answers with the ledger's balances whatever happened
ReadTokens_Ignore(v, fail) == v

ReadTokens(v, fail) == IF fail THEN <<>> ELSE v

\* updateWalletHoldings that never looks at the previous holdings
UpdateChanges_NoPrevious(cache, walletAddress, tokens, time) == AllNew(tokens, time)

\* updateWalletHoldings after its await: the change list
UpdateChanges(cache, walletAddress, tokens, time) ==
  IF MapHas(cache, walletAddress)
  THEN detectChanges(MapGet(cache, walletAddress).tokens, tokens, time)
  ELSE AllNew(tokens, time)

\* updateWalletHoldings after its await: the cache
\* updateWalletHoldings without its holdingsCache.set
UpdateCache_Skip(cache, walletAddress, tokens, time) == cache

UpdateCache(cache, walletAddress, tokens, time) ==
  MapSet(cache, walletAddress, [tokens |-> tokens, lastUpdated |-> time])

(***************************************************************************)
(* Records of the model.                                                   *)
(***************************************************************************)
\* An operation suspended at an await.  `vals` is empty unless the await is a
\* ledger read; then it holds the balances the ledger had at some time since the
\* read was issued: the read is answered with one of them, or fails.
Task(op, addr, cb, vals, start, ok, todo, hs, seen) ==
  [op |-> op, addr |-> addr, cb |-> cb, vals |-> vals, start |-> start, ok |-> ok,
   todo |-> todo, hs |-> hs, seen |-> seen]

NoRead == {}

\* the argument for the answer of an await that is no ledger read
NoValue == <<>>

\* the answers the ledger can give to the read of task t
Answers(t) == IF t.vals = {} THEN {NoValue} ELSE t.vals

\* connection.getParsedTokenAccountsByOwner is called for the address
Reading(a) == {ledger[a]}

\* history: the ledger changed while the task was reading
Dirty(t) == Cardinality(t.vals) > 1

Event(name, addr) == [name |-> name, addr |-> addr]

NoRefresh ==
  [did |-> FALSE, hadPrev |-> FALSE, prevTokens |-> <<>>, tokens |-> <<>>,
   readFailed |-> FALSE, again |-> "none", prevFailed |-> FALSE]

NoHealth == [status |-> "none", errors |-> <<>>, probeFailed |-> FALSE]

NoMetrics ==
  [successRate |-> [num |-> 1, den |-> 1], errorCount |-> 0, totalUpdates |-> 0,
   activeSubscriptions |-> 0]

NoLast ==
  [op |-> "init", phase |-> "done", addr |-> "-", cb |-> "-", result |-> "ok",
   changes |-> <<>>, emitted |-> <<>>, delivered |-> <<>>, threw |-> FALSE,
   refresh |-> NoRefresh, stale |-> {}, wasPaused |-> FALSE, group |-> 0,
   health |-> NoHealth, metrics |-> NoMetrics]

NoTrip == [st |-> "none", handlers |-> <<>>, before |-> <<>>, got |-> {}, recovery |-> 0]

\* the token list cached for each address, empty when none is
Snapshots(cache) ==
  [a \in Addresses |-> IF MapHas(cache, a) THEN MapGet(cache, a).tokens ELSE <<>>]

\* the pause/resume history after a dispatch for address a: the callbacks of a
\* have got a batch when it is not empty and no callback aborted the dispatch
Told(trip, a, changes, throws) ==
  IF trip.st # "none" /\ changes # <<>> /\ ~throws
  THEN [trip EXCEPT !.got = @ \cup {a}] ELSE trip

NoHistory == [st |-> "none", failed |-> FALSE]

Flag(b) == IF b THEN 1 ELSE 0

RemoveAt(s, i) == SubSeq(s, 1, i - 1) \o SubSeq(s, i + 1, Len(s))

\* the ids of the watches live on the ledger
LiveIds == {w.id : w \in live}

\* the callback sets, as a function of the address
HandlersOf(eh, a) == IF MapHas(eh, a) THEN Range(MapGet(eh, a)) ELSE {}

Registrations(eh) == [a \in Addresses |-> HandlersOf(eh, a)]

(***************************************************************************)
(* Init: the state after `new WalletTracker(rpcUrl)`, or after the         *)
(* subscribe calls of `order` have run to completion one after the other   *)
(* on the new tracker: the i-th call opened watch i-1 and its initial      *)
(* refresh wrote the cache at time i.                                      *)
(***************************************************************************)
\* the addresses subscribed at the start, in the order of the calls
InitialOrders == {<<>>, <<"A">>, <<"B">>, <<"A", "B">>}

\* the callbacks registered at the start for an address, in the order of the calls
InitialHandlers(a) == IF a = "A" THEN {<<"cb1">>, <<"cb1", "cb2">>} ELSE {<<"cb1">>}

Established(order, hs) ==
  /\ subscriptions = [i \in 1..Len(order) |-> [k |-> order[i], v |-> i - 1]]
  /\ eventHandlers = [i \in 1..Len(order) |-> [k |-> order[i], v |-> hs[order[i]]]]
  /\ holdingsCache = [i \in 1..Len(order) |->
                        [k |-> order[i],
                         v |-> [tokens |-> InitialLedger[order[i]], lastUpdated |-> i]]]
  /\ live = {[id |-> i - 1, addr |-> order[i]] : i \in 1..Len(order)}
  /\ nextId = Len(order)
  /\ now = Len(order)
  /\ registered = [a \in Addresses |-> IF a \in Range(order) THEN Range(hs[a]) ELSE {}]
  /\ lastRefresh = [a \in Addresses |->
                      IF a \in Range(order) THEN [st |-> "clean", failed |-> FALSE]
                      ELSE NoHistory]

Init ==
  /\ \E order \in InitialOrders :
       \E hs \in {h \in [Addresses -> UNION {InitialHandlers(a) : a \in Addresses}] :
                    \A a \in Addresses :
                      h[a] \in IF a \in Range(order) THEN InitialHandlers(a)
                               ELSE {<<"cb1">>}} :
         Established(order, hs)
  /\ updateLatencies = <<>>
  /\ isPaused = FALSE
  /\ updateCount = 0
  /\ errorCount = 0
  /\ ledger = InitialLedger
  /\ tasks = <<>>
  /\ calls = 0
  /\ faults = 0
  /\ roundTrip = NoTrip
  /\ last = NoLast

(***************************************************************************)
(* The environment.                                                        *)
(***************************************************************************)
\* the balances of an address change on the ledger
LedgerChange(a, v) ==
  /\ v # ledger[a]
  /\ ledger' = [ledger EXCEPT ![a] = v]
  /\ tasks' = [i \in 1..Len(tasks) |->
                 IF tasks[i].addr = a /\ tasks[i].vals # {}
                 THEN [tasks[i] EXCEPT !.vals = @ \cup {v}] ELSE tasks[i]]
  /\ lastRefresh' = [lastRefresh EXCEPT ![a] = NoHistory]
  /\ last' = [NoLast EXCEPT !.op = "ledger", !.addr = a]
  /\ UNCHANGED <<holdingsCache, subscriptions, eventHandlers, updateLatencies,
                 isPaused, updateCount, errorCount, live, nextId, now, calls,
                 faults, registered, roundTrip>>

(***************************************************************************)
(* updateWalletHoldings after its await, for the task that awaited it.     *)
(***************************************************************************)
\* The read of task t is answered: with the balances v, or with a failure.
Answer(t, v, fail) ==
  /\ v \in t.vals
  /\ fail => faults < MaxFaults

RefreshInfo(t, v, fail) ==
  [did |-> TRUE,
   hadPrev |-> MapHas(holdingsCache, t.addr),
   prevTokens |-> IF MapHas(holdingsCache, t.addr)
                  THEN MapGet(holdingsCache, t.addr).tokens ELSE <<>>,
   tokens |-> ReadTokens(v, fail),
   readFailed |-> fail,
   again |-> IF Dirty(t) THEN "none" ELSE lastRefresh[t.addr].st,
   prevFailed |-> lastRefresh[t.addr].failed]

RefreshHistory(t, fail) ==
  [lastRefresh EXCEPT ![t.addr] =
     IF Dirty(t) THEN NoHistory ELSE [st |-> "clean", failed |-> fail]]

\* getTokenAccounts' catch: emit("error", ...)
ReadErrors(t, fail) == IF fail THEN <<Event("error", t.addr)>> ELSE <<>>

\* the cache entries of `removed` are deleted: a later refresh starts from nothing
ForgetHistory(h, removed) ==
  [a \in Addresses |->
     IF a \in removed THEN NoHistory ELSE h[a]]

(***************************************************************************)
(* setupWebSocketSubscription.                                             *)
(***************************************************************************)
validateAddress(address) == address \in Addresses

\* The code of setupWebSocketSubscription from the subscriptions.has test to
\* subscriptions.set; `opens` is whether connection.onAccountChange returns.
\* kind: "has" (multiplexed), "opened" (a watch was opened), "failed" (it threw).
\* setupWebSocketSubscription whose multiplexing branch forgets handlers.add
SetupSync_NoAdd(walletAddress, callback, opens) ==
  IF MapHas(subscriptions, walletAddress)
  THEN [kind |-> "has", handlers |-> eventHandlers,
        subs |-> subscriptions, live |-> live, nextId |-> nextId]
  ELSE IF opens
  THEN [kind |-> "opened",
        handlers |-> MapSet(eventHandlers, walletAddress, <<callback>>),
        subs |-> MapSet(subscriptions, walletAddress, nextId),
        live |-> live \cup {[id |-> nextId, addr |-> walletAddress]},
        nextId |-> nextId + 1]
  ELSE [kind |-> "failed",
        handlers |-> MapSet(eventHandlers, walletAddress, <<callback>>),
        subs |-> subscriptions, live |-> live, nextId |-> nextId]

\* setupWebSocketSubscription that records the handle of a new watch without
\* its eventHandlers.set
SetupSync_NoHandlers(walletAddress, callback, opens) ==
  IF MapHas(subscriptions, walletAddress)
  THEN [kind |-> "has",
        handlers |-> MapSet(eventHandlers, walletAddress,
                            SetAdd(IF MapHas(eventHandlers, walletAddress)
                                   THEN MapGet(eventHandlers, walletAddress) ELSE <<>>,
                                   callback)),
        subs |-> subscriptions, live |-> live, nextId |-> nextId]
  ELSE IF opens
  THEN [kind |-> "opened",
        handlers |-> eventHandlers,
        subs |-> MapSet(subscriptions, walletAddress, nextId),
        live |-> live \cup {[id |-> nextId, addr |-> walletAddress]},
        nextId |-> nextId + 1]
  ELSE [kind |-> "failed",
        handlers |-> eventHandlers,
        subs |-> subscriptions, live |-> live, nextId |-> nextId]

SetupSync(walletAddress, callback, opens) ==
  IF MapHas(subscriptions, walletAddress)
  THEN [kind |-> "has",
        handlers |-> MapSet(eventHandlers, walletAddress,
                            SetAdd(IF MapHas(eventHandlers, walletAddress)
                                   THEN MapGet(eventHandlers, walletAddress) ELSE <<>>,
                                   callback)),
        subs |-> subscriptions, live |-> live, nextId |-> nextId]
  ELSE IF opens
  THEN [kind |-> "opened",
        handlers |-> MapSet(eventHandlers, walletAddress, <<callback>>),
        subs |-> MapSet(subscriptions, walletAddress, nextId),
        live |-> live \cup {[id |-> nextId, addr |-> walletAddress]},
        nextId |-> nextId + 1]
  ELSE [kind |-> "failed",
        handlers |-> MapSet(eventHandlers, walletAddress, <<callback>>),
        subs |-> subscriptions, live |-> live, nextId |-> nextId]

\* subscribe(address, callback) up to its first await, or to its return
SubscribeCall(a, cb, opens) ==
  /\ calls < MaxCalls
  /\ calls' = calls + 1
  /\ now' = now + 1
  /\ IF ~validateAddress(a)
     THEN /\ opens
          /\ last' = [NoLast EXCEPT !.op = "subscribe", !.addr = a, !.cb = cb,
                                    !.result = "error"]
          /\ UNCHANGED <<eventHandlers, subscriptions, live, nextId, tasks, faults,
                         registered, roundTrip>>
     ELSE LET r == SetupSync(a, cb, opens) IN
          /\ r.kind = "has" => opens
          /\ r.kind = "failed" => faults < MaxFaults
          /\ r.kind = "opened" => Len(tasks) < MaxTasks
          /\ eventHandlers' = r.handlers
          /\ subscriptions' = r.subs
          /\ live' = r.live
          /\ nextId' = r.nextId
          /\ faults' = IF r.kind = "failed" THEN faults + 1 ELSE faults
          /\ tasks' = IF r.kind = "opened"
                      THEN Append(tasks, Task("subscribe", a, cb, Reading(a), 0, TRUE,
                                              <<>>, <<>>, {}))
                      ELSE tasks
          /\ registered' = IF r.kind = "has"
                           THEN [registered EXCEPT ![a] = @ \cup {cb}] ELSE registered
          /\ roundTrip' = NoTrip
          /\ last' = [NoLast EXCEPT
                        !.op = "subscribe", !.addr = a, !.cb = cb,
                        !.phase = IF r.kind = "opened" THEN "call" ELSE "done",
                        !.result = CASE r.kind = "has" -> "ok"
                                     [] r.kind = "opened" -> "pending"
                                     [] OTHER -> "error",
                        !.emitted = IF r.kind = "failed"
                                    THEN <<Event("error", a)>> ELSE <<>>]
  /\ UNCHANGED <<holdingsCache, updateLatencies, isPaused, updateCount, errorCount,
                 ledger, lastRefresh>>

\* subscribe after `await this.updateWalletHoldings(walletAddress)`: the change
\* list the refresh returns is dropped (line 371)
SubscribeDone(i, v, fail) ==
  LET t == tasks[i] IN
  /\ t.op = "subscribe"
  /\ Answer(t, v, fail)
  /\ holdingsCache' = UpdateCache(holdingsCache, t.addr, ReadTokens(v, fail), now)
  /\ lastRefresh' = RefreshHistory(t, fail)
  /\ tasks' = RemoveAt(tasks, i)
  /\ registered' = [registered EXCEPT ![t.addr] = @ \cup {t.cb}]
  /\ last' = [NoLast EXCEPT
                !.op = "subscribe", !.addr = t.addr, !.cb = t.cb,
                !.changes = UpdateChanges(holdingsCache, t.addr, ReadTokens(v, fail), now),
                !.refresh = RefreshInfo(t, v, fail),
                !.emitted = ReadErrors(t, fail) \o <<Event("subscribed", t.addr)>>]
  /\ faults' = IF fail THEN faults + 1 ELSE faults
  /\ UNCHANGED <<subscriptions, eventHandlers, updateLatencies, isPaused, updateCount,
                 errorCount, ledger, live, nextId, now, calls, roundTrip>>

(***************************************************************************)
(* The notification handler of a watch (lines 349-366).                    *)
(***************************************************************************)
\* the watch fires: the handler runs to the await of the ledger read
NotifyCall(w) ==
  /\ w \in live
  /\ calls < MaxCalls
  /\ Len(tasks) < MaxTasks
  /\ calls' = calls + 1
  /\ now' = now + 1
  /\ tasks' = Append(tasks, Task("notify", w.addr, "-", Reading(w.addr), now + 1, TRUE, <<>>, <<>>, {}))
  /\ last' = [NoLast EXCEPT !.op = "notify", !.addr = w.addr, !.phase = "call",
                            !.result = "pending"]
  /\ UNCHANGED <<holdingsCache, subscriptions, eventHandlers, updateLatencies,
                 isPaused, updateCount, errorCount, ledger, live, nextId, faults, registered, roundTrip, lastRefresh>>

\* currentHandlers of the dispatch: eventHandlers.get(walletAddress), maybe undefined
CurrentHandlers(a) == IF MapHas(eventHandlers, a) THEN MapGet(eventHandlers, a) ELSE <<>>

\* The handler after the read.  `thrower` is the position, in the callback set, of
\* a callback that throws when invoked; 0 when none does.
NotifyDone(i, v, fail, thrower) ==
  LET t == tasks[i]
      changes == UpdateChanges(holdingsCache, t.addr, ReadTokens(v, fail), now)
      hs == CurrentHandlers(t.addr)
      throws == thrower > 0
  IN
  /\ t.op = "notify"
  /\ Answer(t, v, fail)
  /\ thrower \in 0..Len(hs)
  /\ throws => changes # <<>>
  /\ faults + Flag(throws) + Flag(fail) <= MaxFaults
  /\ holdingsCache' = UpdateCache(holdingsCache, t.addr, ReadTokens(v, fail), now)
  /\ lastRefresh' = RefreshHistory(t, fail)
  /\ updateLatencies' = Append(updateLatencies, now - t.start)
  /\ updateCount' = IF throws THEN updateCount ELSE updateCount + 1
  /\ errorCount' = IF throws THEN errorCount + 1 ELSE errorCount
  /\ faults' = faults + Flag(throws) + Flag(fail)
  /\ tasks' = RemoveAt(tasks, i)
  /\ last' = [NoLast EXCEPT
                !.op = "notify", !.addr = t.addr,
                !.changes = changes,
                !.refresh = RefreshInfo(t, v, fail),
                !.threw = throws,
                !.delivered = IF changes = <<>> THEN <<>>
                              ELSE IF throws THEN SubSeq(hs, 1, thrower) ELSE hs,
                !.emitted = ReadErrors(t, fail) \o
                            (IF changes = <<>> THEN <<>>
                             ELSE IF throws THEN <<Event("error", t.addr)>>
                             ELSE <<Event("changes", t.addr)>>)]
  /\ roundTrip' = Told(roundTrip, t.addr, changes, throws)
  /\ UNCHANGED <<subscriptions, eventHandlers, isPaused, ledger, live, nextId, now,
                 calls, registered>>

(***************************************************************************)
(* refresh(address): the public updateWalletHoldings.                      *)
(***************************************************************************)
RefreshCall(a) ==
  /\ calls < MaxCalls
  /\ Len(tasks) < MaxTasks
  /\ calls' = calls + 1
  /\ now' = now + 1
  /\ tasks' = Append(tasks, Task("refresh", a, "-", Reading(a), 0, TRUE, <<>>, <<>>, {}))
  /\ last' = [NoLast EXCEPT !.op = "refresh", !.addr = a, !.phase = "call",
                            !.result = "pending"]
  /\ UNCHANGED <<holdingsCache, subscriptions, eventHandlers, updateLatencies,
                 isPaused, updateCount, errorCount, ledger, live, nextId, faults, registered, roundTrip, lastRefresh>>

RefreshDone(i, v, fail) ==
  LET t == tasks[i] IN
  /\ t.op = "refresh"
  /\ Answer(t, v, fail)
  /\ holdingsCache' = UpdateCache(holdingsCache, t.addr, ReadTokens(v, fail), now)
  /\ lastRefresh' = RefreshHistory(t, fail)
  /\ tasks' = RemoveAt(tasks, i)
  /\ last' = [NoLast EXCEPT
                !.op = "refresh", !.addr = t.addr,
                !.changes = UpdateChanges(holdingsCache, t.addr, ReadTokens(v, fail), now),
                !.refresh = RefreshInfo(t, v, fail),
                !.emitted = ReadErrors(t, fail)]
  /\ faults' = IF fail THEN faults + 1 ELSE faults
  /\ UNCHANGED <<subscriptions, eventHandlers, updateLatencies, isPaused, updateCount,
                 errorCount, ledger, live, nextId, now, calls, registered,
                 roundTrip>>

(***************************************************************************)
(* refreshAllHoldings: one refresh per cached address, all started by the  *)
(* call (the map callback runs to its await), joined by Promise.all.  The  *)
(* tasks of one call carry the number of the call in `start`.              *)
(***************************************************************************)
\* what the callback of one address throws gets out of its try/catch (lines 596-611)
Escapes_NoInnerCatch(throws) == throws

Escapes(throws) == FALSE

\* the refreshes of call `group` still in flight
Siblings(ts, group) == {j \in 1..Len(ts) : ts[j].op = "refreshAll" /\ ts[j].start = group}

\* refreshAllHoldings() up to `await Promise.all(refreshPromises)`, or to its
\* return when nothing is cached
RefreshAllCall ==
  LET addresses == MapKeys(holdingsCache) IN
  /\ calls < MaxCalls
  /\ Len(tasks) + Len(addresses) <= MaxTasks
  /\ calls' = calls + 1
  /\ now' = now + 1
  /\ tasks' = tasks \o [j \in 1..Len(addresses) |->
                          Task("refreshAll", addresses[j], "-", Reading(addresses[j]),
                               calls + 1, TRUE, <<>>, <<>>, {})]
  /\ last' = IF addresses = <<>>
             THEN [NoLast EXCEPT !.op = "refreshAll", !.group = calls + 1,
                                 !.emitted = <<Event("refreshed", "-")>>]
             ELSE [NoLast EXCEPT !.op = "refreshAll", !.group = calls + 1,
                                 !.phase = "call", !.result = "pending"]
  /\ roundTrip' = IF roundTrip.st = "done" /\ roundTrip.recovery = 0 /\ tasks = <<>>
                  THEN [roundTrip EXCEPT !.recovery = calls + 1] ELSE roundTrip
  /\ UNCHANGED <<holdingsCache, subscriptions, eventHandlers, updateLatencies,
                 isPaused, updateCount, errorCount, ledger, live, nextId, faults,
                 registered, lastRefresh>>

\* The callback of one address after its read.  `thrower` is the position of a
\* callback that throws, 0 when none does.  When the last refresh of the call
\* is done Promise.all resolves and refreshed is emitted; when something escaped
\* a callback's try/catch Promise.all rejects and the call fails (lines 615-618).
RefreshAllStep(i, v, fail, thrower) ==
  LET t == tasks[i]
      changes == UpdateChanges(holdingsCache, t.addr, ReadTokens(v, fail), now)
      hs == CurrentHandlers(t.addr)
      throws == thrower > 0
      rest == RemoveAt(tasks, i)
      pending == Siblings(rest, t.start)
      escaped == Escapes(throws)
  IN
  /\ t.op = "refreshAll"
  /\ Answer(t, v, fail)
  /\ thrower \in 0..Len(hs)
  /\ throws => changes # <<>>
  /\ faults + Flag(throws) + Flag(fail) <= MaxFaults
  /\ faults' = faults + Flag(throws) + Flag(fail)
  /\ holdingsCache' = UpdateCache(holdingsCache, t.addr, ReadTokens(v, fail), now)
  /\ lastRefresh' = RefreshHistory(t, fail)
  /\ tasks' = [j \in 1..Len(rest) |->
                 IF j \in pending /\ escaped THEN [rest[j] EXCEPT !.ok = FALSE]
                 ELSE rest[j]]
  /\ last' = [NoLast EXCEPT
                !.op = "refreshAll", !.addr = t.addr, !.group = t.start,
                !.phase = IF pending = {} \/ escaped THEN "done" ELSE "step",
                !.result = IF escaped \/ ~t.ok THEN "error"
                           ELSE IF pending = {} THEN "ok" ELSE "pending",
                !.changes = changes,
                !.refresh = RefreshInfo(t, v, fail),
                !.threw = throws,
                !.delivered = IF changes = <<>> THEN <<>>
                              ELSE IF throws THEN SubSeq(hs, 1, thrower) ELSE hs,
                !.emitted = ReadErrors(t, fail) \o
                            (IF changes = <<>> THEN <<>>
                             ELSE IF throws /\ ~escaped THEN <<Event("error", t.addr)>>
                             ELSE IF throws THEN <<Event("error", "-")>>
                             ELSE <<Event("changes", t.addr)>>) \o
                            (IF pending = {} /\ t.ok /\ ~escaped
                             THEN <<Event("refreshed", "-")>> ELSE <<>>)]
  /\ roundTrip' = Told(roundTrip, t.addr, changes, throws)
  /\ UNCHANGED <<subscriptions, eventHandlers, updateLatencies, isPaused, updateCount,
                 errorCount, ledger, live, nextId, now, calls, registered>>

(***************************************************************************)
(* removeSubscription and shutdown.  removeAccountChangeListener drops the *)
(* watch when it is called; when it fails the watch stays.                 *)
(***************************************************************************)
Cancel(watches, ids) == {w \in watches : w.id \notin ids}

NoAddress == [a \in Addresses |-> {}]

\* unsubscribe(address) up to its await; `!subscriptionId` holds for undefined and for 0
UnsubscribeCall(a, fails) ==
  /\ calls < MaxCalls
  /\ calls' = calls + 1
  /\ now' = now + 1
  /\ registered' = [registered EXCEPT ![a] = {}]
  /\ roundTrip' = NoTrip
  /\ IF ~MapHas(subscriptions, a) \/ MapGet(subscriptions, a) = 0
     THEN /\ ~fails
          /\ last' = [NoLast EXCEPT !.op = "unsubscribe", !.addr = a]
          /\ UNCHANGED <<live, tasks, faults>>
     ELSE /\ Len(tasks) < MaxTasks
          /\ fails => faults < MaxFaults
          /\ faults' = IF fails THEN faults + 1 ELSE faults
          /\ live' = IF fails THEN live ELSE Cancel(live, {MapGet(subscriptions, a)})
          /\ tasks' = Append(tasks, Task("unsubscribe", a, "-", NoRead, 0, ~fails,
                                         <<>>, <<>>, {}))
          /\ last' = [NoLast EXCEPT !.op = "unsubscribe", !.addr = a, !.phase = "call",
                                    !.result = "pending"]
  /\ UNCHANGED <<holdingsCache, subscriptions, eventHandlers, updateLatencies,
                 isPaused, updateCount, errorCount, ledger, nextId, lastRefresh>>

UnsubscribeDone(i) ==
  LET t == tasks[i] IN
  /\ t.op = "unsubscribe"
  /\ tasks' = RemoveAt(tasks, i)
  /\ IF t.ok
     THEN /\ subscriptions' = MapDelete(subscriptions, t.addr)
          /\ eventHandlers' = MapDelete(eventHandlers, t.addr)
          /\ holdingsCache' = MapDelete(holdingsCache, t.addr)
          /\ lastRefresh' = ForgetHistory(lastRefresh, {t.addr})
          /\ registered' = [registered EXCEPT ![t.addr] = {}]
          /\ last' = [NoLast EXCEPT !.op = "unsubscribe", !.addr = t.addr,
                                    !.emitted = <<Event("unsubscribed", t.addr)>>]
     ELSE /\ last' = [NoLast EXCEPT !.op = "unsubscribe", !.addr = t.addr,
                                    !.result = "error",
                                    !.emitted = <<Event("error", t.addr)>>]
          /\ UNCHANGED <<subscriptions, eventHandlers, holdingsCache, lastRefresh,
                         registered>>
  /\ UNCHANGED <<updateLatencies, isPaused, updateCount, errorCount, ledger, live,
                 nextId, now, calls, faults, roundTrip>>

\* shutdown() up to `await Promise.all(...)`: every cancel is issued; `failing` is
\* the id whose cancel fails, -1 when none does
ShutdownCall(failing) ==
  LET ids == {subscriptions[j].v : j \in 1..Len(subscriptions)} IN
  /\ calls < MaxCalls
  /\ Len(tasks) < MaxTasks
  /\ failing \in ids \cup {-1}
  /\ failing # -1 => faults < MaxFaults
  /\ calls' = calls + 1
  /\ now' = now + 1
  /\ faults' = IF failing # -1 THEN faults + 1 ELSE faults
  /\ live' = Cancel(live, ids \ {failing})
  /\ tasks' = Append(tasks, Task("shutdown", "-", "-", NoRead, 0, failing = -1,
                                 <<>>, <<>>, LiveIds))
  /\ registered' = NoAddress
  /\ roundTrip' = NoTrip
  /\ last' = [NoLast EXCEPT !.op = "shutdown", !.phase = "call", !.result = "pending"]
  /\ UNCHANGED <<holdingsCache, subscriptions, eventHandlers, updateLatencies,
                 isPaused, updateCount, errorCount, ledger, nextId, lastRefresh>>

ShutdownDone(i) ==
  LET t == tasks[i] IN
  /\ t.op = "shutdown"
  /\ tasks' = RemoveAt(tasks, i)
  /\ IF t.ok
     THEN /\ subscriptions' = <<>>
          /\ eventHandlers' = <<>>
          /\ holdingsCache' = <<>>
          /\ updateLatencies' = <<>>
          /\ lastRefresh' = ForgetHistory(lastRefresh, Addresses)
          /\ registered' = NoAddress
          /\ last' = [NoLast EXCEPT !.op = "shutdown",
                                    !.stale = t.seen \cap LiveIds,
                                    !.emitted = <<Event("shutdown", "-")>>]
     ELSE /\ last' = [NoLast EXCEPT !.op = "shutdown", !.result = "error",
                                    !.stale = t.seen \cap LiveIds,
                                    !.emitted = <<Event("error", "-")>>]
          /\ UNCHANGED <<subscriptions, eventHandlers, holdingsCache, updateLatencies,
                         lastRefresh, registered>>
  /\ UNCHANGED <<isPaused, updateCount, errorCount, ledger, live, nextId, now, calls,
                 faults, roundTrip>>

(***************************************************************************)
(* pauseTracking.                                                          *)
(***************************************************************************)
\* pause() up to the await of the first cancel, or to its return
PauseCall(fails) ==
  /\ calls < MaxCalls
  /\ calls' = calls + 1
  /\ now' = now + 1
  /\ IF isPaused
     THEN /\ ~fails
          /\ roundTrip' = NoTrip
          /\ last' = [NoLast EXCEPT !.op = "pause", !.wasPaused = TRUE]
          /\ UNCHANGED <<isPaused, live, tasks, faults>>
     ELSE IF subscriptions = <<>>
     THEN /\ ~fails
          /\ isPaused' = TRUE
          /\ roundTrip' = IF tasks = <<>>
                          THEN [st |-> "pause", handlers |-> Registrations(eventHandlers),
                                before |-> Snapshots(holdingsCache), got |-> {},
                                recovery |-> 0]
                          ELSE NoTrip
          /\ last' = [NoLast EXCEPT !.op = "pause", !.stale = LiveIds,
                                    !.emitted = <<Event("paused", "-")>>]
          /\ UNCHANGED <<live, tasks, faults>>
     ELSE /\ Len(tasks) < MaxTasks
          /\ fails => faults < MaxFaults
          /\ faults' = IF fails THEN faults + 1 ELSE faults
          /\ live' = IF fails THEN live ELSE Cancel(live, {subscriptions[1].v})
          /\ tasks' = Append(tasks, Task("pause", subscriptions[1].k, "-", NoRead, 0,
                                         ~fails, Tail(subscriptions), <<>>, LiveIds))
          /\ roundTrip' = IF tasks = <<>>
                          THEN [st |-> "pause", handlers |-> Registrations(eventHandlers),
                                before |-> Snapshots(holdingsCache), got |-> {},
                                recovery |-> 0]
                          ELSE NoTrip
          /\ last' = [NoLast EXCEPT !.op = "pause", !.phase = "call",
                                    !.result = "pending"]
          /\ UNCHANGED isPaused
  /\ UNCHANGED <<holdingsCache, subscriptions, eventHandlers, updateLatencies,
                 updateCount, errorCount, ledger, nextId, registered, lastRefresh>>

\* pause() after the await of a cancel: the entry is deleted and the next cancel
\* is issued, or the loop ends
PauseStep(i, fails) ==
  LET t == tasks[i] IN
  /\ t.op = "pause"
  /\ IF ~t.ok
     THEN /\ ~fails
          /\ tasks' = RemoveAt(tasks, i)
          /\ roundTrip' = NoTrip
          /\ last' = [NoLast EXCEPT !.op = "pause", !.result = "error",
                                    !.emitted = <<Event("error", "-")>>]
          /\ UNCHANGED <<subscriptions, isPaused, live, faults>>
     ELSE IF t.todo = <<>>
     THEN /\ ~fails
          /\ subscriptions' = MapDelete(subscriptions, t.addr)
          /\ isPaused' = TRUE
          /\ tasks' = RemoveAt(tasks, i)
          /\ last' = [NoLast EXCEPT !.op = "pause", !.stale = t.seen \cap LiveIds,
                                    !.emitted = <<Event("paused", "-")>>]
          /\ UNCHANGED <<live, faults, roundTrip>>
     ELSE /\ fails => faults < MaxFaults
          /\ faults' = IF fails THEN faults + 1 ELSE faults
          /\ subscriptions' = MapDelete(subscriptions, t.addr)
          /\ live' = IF fails THEN live ELSE Cancel(live, {t.todo[1].v})
          /\ tasks' = [tasks EXCEPT ![i] = [t EXCEPT !.addr = t.todo[1].k,
                                                     !.ok = ~fails,
                                                     !.todo = Tail(t.todo)]]
          /\ last' = [NoLast EXCEPT !.op = "pause", !.phase = "step",
                                    !.result = "pending"]
          /\ UNCHANGED <<isPaused, roundTrip>>
  /\ UNCHANGED <<holdingsCache, eventHandlers, updateLatencies, updateCount,
                 errorCount, ledger, nextId, now, calls, registered, lastRefresh>>

(***************************************************************************)
(* resumeTracking.                                                         *)
(***************************************************************************)
\* the addresses of the loop from the first that has a callback set
RECURSIVE SkipUnhandled(_, _)
SkipUnhandled(addresses, handlers) ==
  IF addresses = <<>> THEN <<>>
  ELSE IF MapHas(handlers, Head(addresses)) /\ MapGet(handlers, Head(addresses)) # <<>>
       THEN addresses
       ELSE SkipUnhandled(Tail(addresses), handlers)

\* the addresses resumeTracking walks
ResumeAddresses == MapKeys(holdingsCache)

\* Resume's loop from its position (hs: the callbacks left of the current address,
\* todo: the addresses after it) to the next await, or to the end of the loop.
\* `cache` is the cache after the setup call that has just returned, if any.
ResumeLoop(i, a, hs, todo, cache, emitted, failed, trip, opens) ==
  LET addrs == IF hs # <<>> THEN <<a>> \o todo ELSE SkipUnhandled(todo, eventHandlers)
      next == Head(addrs)
      cbs == IF hs # <<>> THEN hs ELSE MapGet(eventHandlers, next)
      r == SetupSync(next, Head(cbs), opens)
      rest == IF i = 0 THEN tasks ELSE RemoveAt(tasks, i)
  IN
  /\ holdingsCache' = cache
  /\ IF addrs = <<>>
     THEN /\ opens
          /\ isPaused' = FALSE
          /\ tasks' = rest
          /\ faults' = faults + failed
          /\ roundTrip' = IF trip.st = "resume" THEN [trip EXCEPT !.st = "done"] ELSE trip
          /\ last' = [NoLast EXCEPT !.op = "resume", !.wasPaused = TRUE,
                                    !.emitted = emitted \o <<Event("resumed", "-")>>]
          /\ UNCHANGED <<eventHandlers, subscriptions, live, nextId>>
     ELSE /\ r.kind = "has" => opens
          /\ faults + failed + Flag(r.kind = "failed") <= MaxFaults
          /\ faults' = faults + failed + Flag(r.kind = "failed")
          /\ eventHandlers' = r.handlers
          /\ subscriptions' = r.subs
          /\ live' = r.live
          /\ nextId' = r.nextId
          /\ UNCHANGED isPaused
          /\ IF r.kind = "failed"
             THEN /\ tasks' = rest
                  /\ roundTrip' = NoTrip
                  /\ last' = [NoLast EXCEPT
                                !.op = "resume", !.wasPaused = TRUE, !.result = "error",
                                !.emitted = emitted \o <<Event("error", next),
                                                         Event("error", "-")>>]
             ELSE /\ tasks' = Append(rest,
                                Task("resume", next, Head(cbs),
                                     IF r.kind = "opened" THEN Reading(next) ELSE NoRead,
                                     0, TRUE, Tail(addrs), Tail(cbs), {}))
                  /\ roundTrip' = trip
                  /\ last' = [NoLast EXCEPT
                                !.op = "resume", !.wasPaused = TRUE,
                                !.phase = IF i = 0 THEN "call" ELSE "step",
                                !.result = "pending", !.emitted = emitted]

\* resume() up to its first await, or to its return
ResumeCall(opens) ==
  /\ calls < MaxCalls
  /\ calls' = calls + 1
  /\ now' = now + 1
  /\ IF ~isPaused
     THEN /\ opens
          /\ roundTrip' = NoTrip
          /\ last' = [NoLast EXCEPT !.op = "resume"]
          /\ UNCHANGED <<holdingsCache, eventHandlers, subscriptions, live, nextId,
                         faults, isPaused, tasks, lastRefresh>>
     ELSE /\ Len(tasks) < MaxTasks
          /\ ResumeLoop(0, "-", <<>>, ResumeAddresses, holdingsCache, <<>>, 0,
                        IF roundTrip.st = "pause" /\ tasks = <<>>
                        THEN [roundTrip EXCEPT !.st = "resume"] ELSE NoTrip,
                        opens)
          /\ UNCHANGED lastRefresh
  /\ UNCHANGED <<updateLatencies, updateCount, errorCount, ledger, registered>>

\* resume() after `await this.setupWebSocketSubscription(address, handler)`
ResumeStep(i, v, fail, opens) ==
  LET t == tasks[i]
      refreshed == t.vals # {}
  IN
  /\ t.op = "resume"
  /\ IF refreshed THEN Answer(t, v, fail) ELSE ~fail
  /\ lastRefresh' = IF refreshed THEN RefreshHistory(t, fail) ELSE lastRefresh
  /\ ResumeLoop(i, t.addr, t.hs, t.todo,
                IF refreshed
                THEN UpdateCache(holdingsCache, t.addr, ReadTokens(v, fail), now)
                ELSE holdingsCache,
                IF refreshed
                THEN ReadErrors(t, fail) \o <<Event("subscribed", t.addr)>> ELSE <<>>,
                Flag(fail), roundTrip, opens)
  /\ UNCHANGED <<updateLatencies, updateCount, errorCount, ledger, now, calls,
                 registered>>

(***************************************************************************)
(* The specification.                                                      *)
(***************************************************************************)
Next ==
  \/ \E a \in Addresses : \E v \in LedgerValues(a) : LedgerChange(a, v)
  \/ \E in \in SubscribeInputs, opens \in BOOLEAN : SubscribeCall(in[1], in[2], opens)
  \/ \E i \in 1..Len(tasks) : \E v \in Answers(tasks[i]), fail \in BOOLEAN :
       SubscribeDone(i, v, fail)
  \/ \E w \in live : NotifyCall(w)
  \/ \E i \in 1..Len(tasks) :
       \E v \in Answers(tasks[i]), fail \in BOOLEAN, thrower \in 0..Cardinality(Callbacks) :
         NotifyDone(i, v, fail, thrower)
  \/ \E a \in Addresses : RefreshCall(a)
  \/ \E i \in 1..Len(tasks) : \E v \in Answers(tasks[i]), fail \in BOOLEAN :
       RefreshDone(i, v, fail)
  \/ RefreshAllCall
  \/ \E i \in 1..Len(tasks) :
       \E v \in Answers(tasks[i]), fail \in BOOLEAN, thrower \in 0..Cardinality(Callbacks) :
         RefreshAllStep(i, v, fail, thrower)
  \/ \E a \in Addresses, fails \in BOOLEAN : UnsubscribeCall(a, fails)
  \/ \E i \in 1..Len(tasks) : UnsubscribeDone(i)
  \/ \E failing \in -1..(nextId - 1) : ShutdownCall(failing)
  \/ \E i \in 1..Len(tasks) : ShutdownDone(i)
  \/ \E fails \in BOOLEAN : PauseCall(fails)
  \/ \E i \in 1..Len(tasks), fails \in BOOLEAN : PauseStep(i, fails)
  \/ \E opens \in BOOLEAN : ResumeCall(opens)
  \/ \E i \in 1..Len(tasks) :
       \E v \in Answers(tasks[i]), fail \in BOOLEAN, opens \in BOOLEAN :
         ResumeStep(i, v, fail, opens)

Spec == Init /\ [][Next]_vars

(***************************************************************************)
(* Refreshes alone, over every token list: the cache of A is absent or     *)
(* holds any list (the balances the ledger had at an earlier refresh), the *)
(* ledger holds any list, and refresh("A") is called, also while an        *)
(* earlier call is still reading; the balances of A may change meanwhile.  *)
(***************************************************************************)
InitDiff ==
  /\ \E old \in TokenLists, cached \in BOOLEAN :
       /\ ~cached => old = <<>>
       /\ holdingsCache = IF cached
                          THEN <<[k |-> "A", v |-> [tokens |-> old, lastUpdated |-> 0]]>>
                          ELSE <<>>
  /\ \E new \in TokenLists : ledger = [InitialLedger EXCEPT !["A"] = new]
  /\ subscriptions = <<>>
  /\ eventHandlers = <<>>
  /\ updateLatencies = <<>>
  /\ isPaused = FALSE
  /\ updateCount = 0
  /\ errorCount = 0
  /\ live = {}
  /\ nextId = 0
  /\ now = 1
  /\ tasks = <<>>
  /\ calls = 0
  /\ faults = 0
  /\ registered = NoAddress
  /\ roundTrip = NoTrip
  /\ lastRefresh = [a \in Addresses |-> NoHistory]
  /\ last = NoLast

NextDiff ==
  \/ \E v \in LedgerValues("A") : LedgerChange("A", v)
  \/ RefreshCall("A")
  \/ \E i \in 1..Len(tasks) : \E v \in Answers(tasks[i]), fail \in BOOLEAN :
       RefreshDone(i, v, fail)

SpecDiff == InitDiff /\ [][NextDiff]_vars

(***************************************************************************)
(* checkHealth, with the passing of time.  Times are in milliseconds; every *)
(* call takes one.                                                         *)
(***************************************************************************)
\* the staleness threshold of line 461
StaleMs == 5 * 60 * 1000

\* time passes with nothing happening
Elapse(d) ==
  /\ now < StaleMs
  /\ now' = now + d
  /\ last' = [NoLast EXCEPT !.op = "elapse"]
  /\ UNCHANGED <<holdingsCache, subscriptions, eventHandlers, updateLatencies,
                 isPaused, updateCount, errorCount, ledger, live, nextId, tasks,
                 calls, faults, registered, roundTrip, lastRefresh>>

\* the most recent lastUpdated of the cache; -1 for the null of an empty cache
RECURSIVE LastUpdate(_, _)
LastUpdate(cache, lastUpdate) ==
  IF cache = <<>> THEN lastUpdate
  ELSE LastUpdate(Tail(cache),
                  IF lastUpdate = -1 \/ Head(cache).v.lastUpdated > lastUpdate
                  THEN Head(cache).v.lastUpdated ELSE lastUpdate)

\* the errors checkHealth collects, the probe having failed or not
HealthErrors(probeFails) ==
  IF probeFails THEN <<"connection">>
  ELSE (IF LastUpdate(holdingsCache, -1) # -1
           /\ now - LastUpdate(holdingsCache, -1) > StaleMs
        THEN <<"stale">> ELSE <<>>)
       \o (IF Len(subscriptions) # Len(eventHandlers) THEN <<"mismatch">> ELSE <<>>)

\* the classification with its second threshold off by one
HealthStatusOf_Lenient(errors) ==
  IF Len(errors) = 0 THEN "healthy"
  ELSE IF Len(errors) < 3 THEN "degraded" ELSE "unhealthy"

HealthStatusOf(errors) ==
  IF Len(errors) = 0 THEN "healthy"
  ELSE IF Len(errors) < 2 THEN "degraded" ELSE "unhealthy"

\* checkHealth() up to `await this.connection.getSlot()`
CheckHealthCall ==
  /\ calls < MaxCalls
  /\ Len(tasks) < MaxTasks
  /\ calls' = calls + 1
  /\ now' = now + 1
  /\ tasks' = Append(tasks, Task("checkHealth", "-", "-", NoRead, 0, TRUE, <<>>, <<>>, {}))
  /\ last' = [NoLast EXCEPT !.op = "checkHealth", !.phase = "call", !.result = "pending"]
  /\ UNCHANGED <<holdingsCache, subscriptions, eventHandlers, updateLatencies,
                 isPaused, updateCount, errorCount, ledger, live, nextId, faults,
                 registered, roundTrip, lastRefresh>>

\* checkHealth() after the probe
CheckHealthDone(i, probeFails) ==
  LET t == tasks[i] IN
  /\ t.op = "checkHealth"
  /\ probeFails => faults < MaxFaults
  /\ faults' = faults + Flag(probeFails)
  /\ tasks' = RemoveAt(tasks, i)
  /\ last' = [NoLast EXCEPT
                !.op = "checkHealth",
                !.health = [status |-> HealthStatusOf(HealthErrors(probeFails)),
                            errors |-> HealthErrors(probeFails),
                            probeFailed |-> probeFails]]
  /\ UNCHANGED <<holdingsCache, subscriptions, eventHandlers, updateLatencies,
                 isPaused, updateCount, errorCount, ledger, live, nextId, now, calls,
                 registered, roundTrip, lastRefresh>>

\* The tracker under health checks: time passes, snapshots are refreshed,
\* tracking is paused and resumed, checkHealth is called.
NextHealth ==
  \/ \E d \in {StaleMs - 1, StaleMs} : Elapse(d)
  \/ CheckHealthCall
  \/ \E i \in 1..Len(tasks), probeFails \in BOOLEAN : CheckHealthDone(i, probeFails)
  \/ \E a \in Addresses : RefreshCall(a)
  \/ \E i \in 1..Len(tasks) : \E v \in Answers(tasks[i]), fail \in BOOLEAN :
       RefreshDone(i, v, fail)
  \/ \E fails \in BOOLEAN : PauseCall(fails)
  \/ \E i \in 1..Len(tasks), fails \in BOOLEAN : PauseStep(i, fails)
  \/ \E opens \in BOOLEAN : ResumeCall(opens)
  \/ \E i \in 1..Len(tasks) :
       \E v \in Answers(tasks[i]), fail \in BOOLEAN, opens \in BOOLEAN :
         ResumeStep(i, v, fail, opens)

SpecHealth == Init /\ [][NextHealth]_vars

(***************************************************************************)
(* getMetrics, with the notifications that move its counters.              *)
(***************************************************************************)
\* the success rate of getMetrics, as a fraction
successRate(updates, errors) ==
  IF updates > 0 THEN [num |-> updates - errors, den |-> updates]
  ELSE [num |-> 1, den |-> 1]

\* getMetrics(): synchronous
GetMetrics ==
  /\ calls < MaxCalls
  /\ calls' = calls + 1
  /\ now' = now + 1
  /\ last' = [NoLast EXCEPT
                !.op = "getMetrics",
                !.metrics = [successRate |-> successRate(updateCount, errorCount),
                             errorCount |-> errorCount,
                             totalUpdates |-> updateCount,
                             activeSubscriptions |-> Len(subscriptions)]]
  /\ UNCHANGED <<holdingsCache, subscriptions, eventHandlers, updateLatencies,
                 isPaused, updateCount, errorCount, ledger, live, nextId, tasks,
                 faults, registered, roundTrip, lastRefresh>>

\* The state after subscribe("A", cb1) and, when `thrown`, one notification of A
\* (its balance having changed to 2) whose callback threw: an error is counted,
\* no update.  The failure budget of the run starts anew.
InitMetrics ==
  \E thrown \in BOOLEAN :
    LET time == IF thrown THEN 2 ELSE 1
        held == <<Token("X", time)>>
    IN
    /\ subscriptions = <<[k |-> "A", v |-> 0]>>
    /\ eventHandlers = <<[k |-> "A", v |-> <<"cb1">>]>>
    /\ holdingsCache = <<[k |-> "A", v |-> [tokens |-> held, lastUpdated |-> time]]>>
    /\ ledger = [InitialLedger EXCEPT !["A"] = held]
    /\ live = {[id |-> 0, addr |-> "A"]}
    /\ nextId = 1
    /\ now = time
    /\ updateLatencies = IF thrown THEN <<0>> ELSE <<>>
    /\ updateCount = 0
    /\ errorCount = IF thrown THEN 1 ELSE 0
    /\ isPaused = FALSE
    /\ tasks = <<>>
    /\ calls = 0
    /\ faults = 0
    /\ registered = [NoAddress EXCEPT !["A"] = {"cb1"}]
    /\ roundTrip = NoTrip
    /\ lastRefresh = [a \in Addresses |->
                        IF a = "A" THEN [st |-> "clean", failed |-> FALSE] ELSE NoHistory]
    /\ last = NoLast

NextMetrics ==
  \/ \E a \in Addresses : \E v \in LedgerValues(a) : LedgerChange(a, v)
  \/ \E w \in live : NotifyCall(w)
  \/ \E i \in 1..Len(tasks) :
       \E v \in Answers(tasks[i]), fail \in BOOLEAN, thrower \in 0..Cardinality(Callbacks) :
         NotifyDone(i, v, fail, thrower)
  \/ GetMetrics

SpecMetrics == InitMetrics /\ [][NextMetrics]_vars

(***************************************************************************)
(* Properties.                                                             *)
(***************************************************************************)
\* the step just taken is the completion of a notification handler of address a
\* that found changes and whose callbacks all returned
Dispatched(a) ==
  /\ last.op = "notify" /\ last.phase = "done" /\ last.addr = a
  /\ last.changes # <<>> /\ ~last.threw

\* the step just taken completed updateWalletHoldings
Refreshed == last.refresh.did

UniqueMints(tokens) ==
  \A i, j \in 1..Len(tokens) : tokens[i].mint = tokens[j].mint => i = j

MintsOf(tokens) == {tokens[i].mint : i \in 1..Len(tokens)}

AmountOf(tokens, mint) == tokens[CHOOSE i \in 1..Len(tokens) : tokens[i].mint = mint].amount

\* the (mint, old balance, new balance) triples the diff of two snapshots is to hold
ExpectedChanges(old, new) ==
  {<<m, 0, AmountOf(new, m)>> : m \in MintsOf(new) \ MintsOf(old)}
    \cup {<<m, AmountOf(old, m), AmountOf(new, m)>> :
            m \in {x \in MintsOf(old) \cap MintsOf(new) : AmountOf(old, x) # AmountOf(new, x)}}
    \cup {<<m, AmountOf(old, m), 0>> : m \in MintsOf(old) \ MintsOf(new)}

ChangeTriples(changes) == {<<c.mint, c.oldBalance, c.newBalance>> : c \in Range(changes)}

\* C1: at every moment each address has at most one watch live on the ledger,
\* however many callbacks are registered for it and whatever calls were made.
C1_AtMostOneLiveWatch ==
  \A a \in Addresses : Cardinality({w \in live : w.addr = a}) <= 1

\* C2: once subscribe(a, cb1) and subscribe(a, cb2) have both returned, and a
\* was not unsubscribed or shut down since, every non-empty change batch of a is
\* delivered to both callbacks, whatever pause and resume calls were made
\* (batches whose dispatch a throwing callback aborted are left aside).
C2_BothCallbacksReceive ==
  \A a \in Addresses :
    (Dispatched(a) /\ Cardinality(registered[a]) >= 2)
      => registered[a] \subseteq Range(last.delivered)

\* C3: for snapshots with unique mints the change list of a refresh has exactly
\* one entry for each mint that is new (0 -> amount), changed (old -> new) or
\* gone (old -> 0), and no entry for any other mint.
C3_ExactDiff ==
  (Refreshed /\ UniqueMints(last.refresh.prevTokens) /\ UniqueMints(last.refresh.tokens))
    => /\ ChangeTriples(last.changes)
            = ExpectedChanges(last.refresh.prevTokens, last.refresh.tokens)
       /\ Len(last.changes)
            = Cardinality(ExpectedChanges(last.refresh.prevTokens, last.refresh.tokens))

\* a refresh against a cached snapshot reported a new mint and a gone mint
C3_Witness ==
  /\ Refreshed /\ last.refresh.hadPrev /\ ~last.refresh.readFailed
  /\ UniqueMints(last.refresh.prevTokens) /\ UniqueMints(last.refresh.tokens)
  /\ \E c \in Range(last.changes) : c.oldBalance = 0 /\ c.newBalance > 0
  /\ \E c \in Range(last.changes) : c.oldBalance > 0 /\ c.newBalance = 0

\* C4: the subscribe call that opens the watch of an address without a cached
\* snapshot, the ledger holding at least one mint, emits a changes event for the
\* address and hands the baseline changes to the callback.
C4_BaselineAnnounced ==
  (/\ last.op = "subscribe" /\ Refreshed
   /\ ~last.refresh.hadPrev /\ ~last.refresh.readFailed /\ last.refresh.tokens # <<>>)
    => /\ Event("changes", last.addr) \in Range(last.emitted)
       /\ last.cb \in Range(last.delivered)

\* C5 (as stated): a refresh that follows a refresh of the same address, the
\* ledger unchanged since the first was called, returns no change.
C5_SecondRefreshEmpty ==
  (/\ Refreshed /\ last.refresh.again = "clean"
   /\ UniqueMints(last.refresh.prevTokens) /\ UniqueMints(last.refresh.tokens))
    => last.changes = <<>>

\* C5 (amended): a refresh that follows a refresh of the same address with
\* nothing else writing the snapshot in between, the ledger unchanged since the
\* first was called, its mints unique, and the two ledger reads ending alike
\* (both answered or both failed), returns no change.
C5_SecondRefreshEmptySameOutcome ==
  (/\ Refreshed /\ last.refresh.again = "clean"
   /\ last.refresh.readFailed = last.refresh.prevFailed
   /\ UniqueMints(last.refresh.prevTokens) /\ UniqueMints(last.refresh.tokens))
    => last.changes = <<>>

\* the second of two answered refreshes of a two-mint ledger returned no change
C5_Witness ==
  /\ Refreshed /\ last.refresh.again = "clean"
  /\ ~last.refresh.readFailed /\ ~last.refresh.prevFailed
  /\ UniqueMints(last.refresh.tokens) /\ Len(last.refresh.tokens) = 2
  /\ last.changes = <<>>

\* C6: a refresh whose ledger read fails does not fail: it emits an error event,
\* replaces the snapshot by an empty token set stamped with the current time, and
\* returns one change per cached token, in the cached order, with newBalance 0.
C6_ReadFailurePolicy ==
  (Refreshed /\ last.refresh.readFailed)
    => /\ last.result = "ok"
       /\ Event("error", last.addr) \in Range(last.emitted)
       /\ MapHas(holdingsCache, last.addr)
       /\ MapGet(holdingsCache, last.addr) = [tokens |-> <<>>, lastUpdated |-> now]
       /\ Len(last.changes) = Len(last.refresh.prevTokens)
       /\ \A i \in 1..Len(last.changes) :
            /\ last.changes[i].mint = last.refresh.prevTokens[i].mint
            /\ last.changes[i].oldBalance = last.refresh.prevTokens[i].amount
            /\ last.changes[i].newBalance = 0

\* a refresh of a cached two-token snapshot whose read failed
C6_Witness ==
  /\ Refreshed /\ last.refresh.readFailed
  /\ Len(last.refresh.prevTokens) = 2 /\ UniqueMints(last.refresh.prevTokens)
  /\ ledger[last.addr] # <<>>
  /\ last.emitted = <<Event("error", last.addr)>>
  /\ Len(last.changes) = 2

\* C7: after pause() and then resume() on a quiet manager, both completed, every
\* address has the callbacks it had before the pause, and a later non-empty batch
\* whose dispatch no callback aborts reaches exactly those callbacks.
C7_RegistrationsSurviveRoundTrip ==
  roundTrip.st = "done"
    => /\ Registrations(eventHandlers) = roundTrip.handlers
       /\ \A a \in Addresses :
            Dispatched(a) => Range(last.delivered) = roundTrip.handlers[a]

\* after a completed pause/resume cycle a batch reached both callbacks of A
C7_Witness ==
  /\ roundTrip.st = "done"
  /\ roundTrip.handlers["A"] = {"cb1", "cb2"}
  /\ Dispatched("A")
  /\ Range(last.delivered) = {"cb1", "cb2"}

\* C8: no step of pause() or resume() changes a cached snapshot: the cache is
\* after each of their steps what it was before.
C8_PauseResumeKeepSnapshots ==
  [][last'.op \in {"pause", "resume"} => holdingsCache' = holdingsCache]_vars

\* C9: when resume() returns on a paused manager (no failure injected in the
\* run), the paused flag is cleared and every address with registered callbacks
\* has a live watch; on a manager that is not paused resume() changes nothing.
C9_ResumeReopensEveryWatch ==
  (last.op = "resume" /\ last.phase = "done" /\ last.result = "ok" /\ faults = 0)
    => IF last.wasPaused
       THEN /\ ~isPaused
            /\ \A a \in Addresses :
                 HandlersOf(eventHandlers, a) # {} => \E w \in live : w.addr = a
       ELSE last.emitted = <<>>

\* C10: when pause() returns on a manager that was not paused, no watch that was
\* live when it was called is still live, the paused flag is set and paused was
\* emitted once; on a paused manager pause() emits nothing.
C10_PauseCancelsEveryWatch ==
  (last.op = "pause" /\ last.phase = "done" /\ last.result = "ok")
    => IF last.wasPaused
       THEN last.emitted = <<>>
       ELSE /\ last.stale = {}
            /\ isPaused
            /\ last.emitted = <<Event("paused", "-")>>

\* the step just taken is the return, without error, of the operation op
Returned(op) == last.op = op /\ last.phase = "done" /\ last.result = "ok"

HasWatch(a) == \E w \in live : w.addr = a

\* C11: when unsubscribe(a) returns without error for an address with a
\* callback set, a has no callback set, no live watch and no cached snapshot,
\* paused or not and whatever handle the watch has, 0 included.
C11_UnsubscribeRemovesAll ==
  Returned("unsubscribe")
    => /\ ~MapHas(eventHandlers, last.addr)
       /\ Event("unsubscribed", last.addr) \in Range(last.emitted)
            => ~HasWatch(last.addr) /\ ~MapHas(holdingsCache, last.addr)

\* C12: when shutdown() returns without error there is no live watch, no
\* callback set, no cached snapshot and no latency sample, also when other
\* operations were in flight while it waited for the cancellations.
C12_ShutdownClearsAll ==
  Returned("shutdown")
    => /\ live = {}
       /\ eventHandlers = <<>>
       /\ holdingsCache = <<>>
       /\ updateLatencies = <<>>

\* C13: once shutdown() has returned, with nothing else in flight, the next
\* step (a later call on the same instance, no failure injected) opens no watch
\* and registers no callback set.
C13_NoReuseAfterShutdown ==
  [][(Returned("shutdown") /\ tasks = <<>> /\ faults' = 0)
       => (live' \subseteq live /\ eventHandlers' = eventHandlers)]_vars

\* C14: at no time are two notification handlers of the same address both
\* waiting for their ledger read, their cache writes still to come.
C14_OneHandlerPerAddress ==
  \A i, j \in 1..Len(tasks) :
    (tasks[i].op = "notify" /\ tasks[j].op = "notify" /\ tasks[i].addr = tasks[j].addr)
      => i = j

\* C15: a notification handler that completes for an address that is no longer
\* tracked (no subscription entry, no callback set) writes no snapshot for it.
C15_NoStaleCacheWrite ==
  (/\ last.op = "notify" /\ last.phase = "done"
   /\ ~MapHas(subscriptions, last.addr) /\ ~MapHas(eventHandlers, last.addr))
    => ~MapHas(holdingsCache, last.addr)

\* C16: refreshAllHoldings() starts a refresh for every cached address; each
\* refresh writes its snapshot and dispatches its changes whatever happened to
\* the others, a failed read or a throwing callback is reported by an error
\* event, the call never fails, and refreshed is emitted exactly when the last
\* refresh of the call is done.
C16_RefreshAllIsolated ==
  last.op = "refreshAll"
    => /\ last.result # "error"
       /\ last.phase = "call"
            => \A a \in Range(MapKeys(holdingsCache)) :
                 \E j \in Siblings(tasks, last.group) : tasks[j].addr = a
       /\ last.phase = "step" => Siblings(tasks, last.group) # {}
       /\ Event("refreshed", "-") \in Range(last.emitted)
            <=> (last.phase = "done" /\ Siblings(tasks, last.group) = {})
       /\ Refreshed
            => /\ MapGet(holdingsCache, last.addr)
                    = [tokens |-> last.refresh.tokens, lastUpdated |-> now]
               /\ (last.refresh.readFailed \/ last.threw)
                    => Event("error", last.addr) \in Range(last.emitted)
               /\ (last.changes # <<>> /\ ~last.threw)
                    => /\ last.delivered = CurrentHandlers(last.addr)
                       /\ Event("changes", last.addr) \in Range(last.emitted)

\* a refreshAllHoldings() over two addresses returned: one refresh failed, the
\* other, done last, delivered its changes
C16_Witness ==
  /\ Returned("refreshAll") /\ calls = 1 /\ faults = 1
  /\ Refreshed /\ ~last.refresh.readFailed /\ ~last.threw
  /\ last.delivered # <<>>
  /\ Event("refreshed", "-") \in Range(last.emitted)

\* C17: the error list checkHealth returns holds a connectivity error exactly
\* when the probe failed, a staleness error exactly when a snapshot is cached
\* and the most recent lastUpdated is more than 5 minutes old, and a mismatch
\* error exactly when the numbers of watch handles and of callback sets differ.
C17_ChecksIndependent ==
  Returned("checkHealth")
    => /\ "connection" \in Range(last.health.errors) <=> last.health.probeFailed
       /\ "stale" \in Range(last.health.errors)
            <=> (holdingsCache # <<>> /\ now - LastUpdate(holdingsCache, -1) > StaleMs)
       /\ "mismatch" \in Range(last.health.errors)
            <=> Len(subscriptions) # Len(eventHandlers)

\* C18: the status checkHealth returns is healthy for no error, degraded for
\* exactly one and unhealthy for two or more.
C18_HealthClassification ==
  Returned("checkHealth")
    => last.health.status = CASE Len(last.health.errors) = 0 -> "healthy"
                              [] Len(last.health.errors) = 1 -> "degraded"
                              [] OTHER -> "unhealthy"

\* checkHealth found stale snapshots and a subscription mismatch: unhealthy
C18_Witness ==
  /\ Returned("checkHealth")
  /\ last.health.errors = <<"stale", "mismatch">>
  /\ last.health.status = "unhealthy"

\* C19: the success rate getMetrics reports lies in [0,1]: its numerator is
\* at least 0 and at most its denominator; equivalently the error counter
\* does not exceed the update counter once an update has been counted.
C19_SuccessRateInUnitInterval ==
  last.op = "getMetrics"
    => /\ 0 <= last.metrics.successRate.num
       /\ last.metrics.successRate.num <= last.metrics.successRate.den
       /\ last.metrics.totalUpdates > 0
            => last.metrics.errorCount <= last.metrics.totalUpdates

\* C20: when a refreshAllHoldings() called after a completed pause() and resume()
\* on a quiet manager returns without error, then for every tracked address whose ledger
\* balances, as the recovery has read them, differ from the snapshot cached
\* before the pause, the callbacks of the address have received a non-empty
\* change batch since the pause.
C20_RecoveryResynchronizes ==
  (Returned("refreshAll") /\ roundTrip.st = "done" /\ roundTrip.recovery = last.group)
    => \A a \in Addresses :
         ( /\ MapHas(holdingsCache, a)
           /\ MapGet(holdingsCache, a).tokens = ledger[a]
           /\ ledger[a] # roundTrip.before[a] )
           => a \in roundTrip.got

\* a step that completes the handler of a watch notification
HandlerCompletes == last'.op = "notify" /\ last'.phase = "done"

\* C21: every handled watch notification increments the update counter by
\* exactly one, whether its change list is empty or not, its ledger read
\* succeeded or failed, its callbacks returned or threw.
C21_EveryNotificationCounted ==
  [][HandlerCompletes => updateCount' = updateCount + 1]_vars

\* C22: a watch notification whose refresh fails to reach the ledger increments
\* the error counter by one, and the update counter as well.
C22_ReadFailureCounted ==
  [][(HandlerCompletes /\ last'.refresh.readFailed)
       => (errorCount' = errorCount + 1 /\ updateCount' = updateCount + 1)]_vars

\* C23: a handled notification with a non-empty change list invokes every
\* callback registered for its address, each exactly once, also when one of
\* them throws; one with an empty change list invokes no callback and emits no
\* changes event.
C23_DispatchToEveryCallback ==
  (last.op = "notify" /\ last.phase = "done")
    => IF last.changes # <<>>
       THEN /\ Range(last.delivered) = Range(CurrentHandlers(last.addr))
            /\ Len(last.delivered) = Len(CurrentHandlers(last.addr))
       ELSE /\ last.delivered = <<>>
            /\ Event("changes", last.addr) \notin Range(last.emitted)

\* C24: when shutdown() fails because a cancel failed, the callback sets, the
\* cached snapshots and the latency samples are cleared all the same when the
\* error is signalled.
C24_FailedShutdownStillClears ==
  (last.op = "shutdown" /\ last.phase = "done" /\ last.result = "error")
    => /\ Event("error", "-") \in Range(last.emitted)
       /\ eventHandlers = <<>>
       /\ holdingsCache = <<>>
       /\ updateLatencies = <<>>

\* the ledger reads for address a still awaited
ReadsInFlight(ts, a) == {j \in 1..Len(ts) : ts[j].addr = a /\ ts[j].vals # {}}

\* C25: when the balances of a tracked address have stopped changing and a
\* refresh issued since then has completed with a successful read, the snapshot
\* equals the ledger's balances once the last refresh in flight for the
\* address completes with a successful read, whatever the order in which
\* overlapping reads are answered.
C25_CacheConverges ==
  [][\A a \in Addresses :
       ( /\ lastRefresh[a].st = "clean" /\ ~lastRefresh[a].failed
         /\ ledger' = ledger
         /\ last'.refresh.did /\ last'.addr = a /\ ~last'.refresh.readFailed
         /\ ReadsInFlight(tasks', a) = {}
         /\ MapHas(holdingsCache', a) )
         => MapGet(holdingsCache', a).tokens = ledger[a]]_vars

\* the amounts a token list holds for a mint; 0 when it holds none
AmountsHeld(tokens, mint) ==
  IF HasMint(tokens, mint)
  THEN {tokens[i].amount : i \in {j \in 1..Len(tokens) : tokens[j].mint = mint}}
  ELSE {0}

\* C26: the oldBalance of every change a refresh returns is the amount the
\* cache held for that mint just before the refresh wrote the cache (0 when the
\* mint or the snapshot was absent); and when two refreshes of one address
\* complete one after the other, overlapping or not, over a snapshot with unique
\* mints, the oldBalance of a change of the second equals the newBalance of the
\* change of the first for the same mint.
C26_ChangeChaining ==
  [][last'.refresh.did
       => /\ \A c \in Range(last'.changes) :
               c.oldBalance \in AmountsHeld(last'.refresh.prevTokens, c.mint)
          /\ (last.refresh.did /\ last.addr = last'.addr
                /\ UniqueMints(last'.refresh.prevTokens))
               => \A c1 \in Range(last.changes), c2 \in Range(last'.changes) :
                    c1.mint = c2.mint => c2.oldBalance = c1.newBalance]_vars

\* the second of two refreshes of A has returned a change from a non-zero
\* amount over a snapshot of two mints
C26_Witness ==
  /\ last.op = "refresh" /\ last.refresh.did /\ last.refresh.hadPrev
  /\ calls = 2 /\ tasks = <<>>
  /\ UniqueMints(last.refresh.prevTokens) /\ Len(last.refresh.prevTokens) = 2
  /\ \E c \in Range(last.changes) : c.oldBalance = 1 /\ c.newBalance = 2

\* C27: a subscribe(a, cb) for an address without subscription that fails
\* because the watch cannot be opened leaves the callback sets, the watch
\* handles, the live watches and the cached snapshots as they were before the
\* call.
C27_FailedSubscribeAtomic ==
  [][( /\ last'.op = "subscribe" /\ last'.phase = "done" /\ last'.result = "error"
       /\ validateAddress(last'.addr)
       /\ ~MapHas(subscriptions, last'.addr) )
       => /\ eventHandlers' = eventHandlers
          /\ subscriptions' = subscriptions
          /\ live' = live
          /\ holdingsCache' = holdingsCache]_vars

\* C28: while the manager is marked paused and no resume() is in progress no
\* watch is live, whatever subscribe and unsubscribe calls are made meanwhile.
C28_NoWatchWhilePaused ==
  (isPaused /\ \A i \in 1..Len(tasks) : tasks[i].op # "resume") => live = {}

\* C29: every address with a watch handle in the subscription map has a
\* callback set, and the set is not empty, whatever subscribe, unsubscribe,
\* pause, resume and shutdown calls have run or are in progress.
C29_HandleHasCallbacks ==
  \A a \in Addresses :
    MapHas(subscriptions, a)
      => MapHas(eventHandlers, a) /\ MapGet(eventHandlers, a) # <<>>

\* resume() has completed and recorded a new handle for A, whose callbacks are
\* still registered
C29_Witness ==
  /\ Returned("resume") /\ last.wasPaused
  /\ MapHas(subscriptions, "A") /\ MapGet(subscriptions, "A") > 0
  /\ MapHas(eventHandlers, "A") /\ MapGet(eventHandlers, "A") # <<>>

\* C30: every change a refresh returns is a real change: its oldBalance
\* differs from its newBalance, on the first refresh of an address too and
\* for token accounts whose amount is 0.
C30_EveryChangeIsReal ==
  Refreshed => \A c \in Range(last.changes) : c.oldBalance # c.newBalance

\* C30, amended: a change whose oldBalance equals its newBalance is 0 -> 0 and
\* is for a mint that the snapshot did not hold before the refresh (first
\* refresh included) or that the read did not return; every change for a mint
\* held before and after has different balances.
C30_EveryChangeIsRealOrZeroAccount ==
  Refreshed
    => \A c \in Range(last.changes) :
         c.oldBalance = c.newBalance
           => /\ c.oldBalance = 0
              /\ \/ ~HasMint(last.refresh.prevTokens, c.mint)
                 \/ ~HasMint(last.refresh.tokens, c.mint)

\* a refresh over an existing snapshot returned a 0 -> 0 entry for a new token
\* account and a change of balance for a mint held before
C30_Witness ==
  /\ Refreshed /\ last.refresh.hadPrev /\ ~last.refresh.readFailed
  /\ \E c \in Range(last.changes) :
       /\ c.oldBalance = 0 /\ c.newBalance = 0
       /\ ~HasMint(last.refresh.prevTokens, c.mint)
  /\ \E c \in Range(last.changes) :
       /\ c.oldBalance # c.newBalance
       /\ HasMint(last.refresh.prevTokens, c.mint)
       /\ HasMint(last.refresh.tokens, c.mint)

====
